---- MODULE Spec2Model ----
(***************************************************************************)
(* polars-config-meta: the identity-keyed metadata registry of             *)
(* ConfigMetaPlugin (src/src/polars_config_meta/__init__.py), its          *)
(* forwarding proxy and the parquet write/read bridge.                     *)
(*                                                                         *)
(* The heap is modelled as far as the plugin observes it: DataFrame        *)
(* identities are addresses (id(df)) that the allocator may hand out again *)
(* once the object at that address has been finalized; metadata dicts and  *)
(* weakref objects are heap objects with their own identity.               *)
(***************************************************************************)
EXTENDS Integers, Sequences, FiniteSets, TLC

\* ------------------------------------------------------------------ bounds
NumIds == 2
NumProxies == 2
MaxMergeArgs == 2
MaxOps == 5                      \* calls the caller makes in one run
NumMergeIds == 3                 \* DataFrames of the merge scenarios

Ids == 1..NumIds                 \* addresses a DataFrame can live at: id(df)
Proxies == 1..NumProxies         \* ConfigMetaPlugin objects the caller keeps
Files == {"f1"}                  \* parquet paths
Keys == {"a", "b"}               \* metadata keys (str)

\* ----------------------------------------------------------- Python values
PyInt == [type |-> "int", val |-> "1"]        \* 1
PyTuple == [type |-> "tuple", val |-> "1"]    \* (1,)
PyList == [type |-> "list", val |-> "1"]      \* [1]
PySet == [type |-> "set", val |-> "1"]        \* {1}: not JSON serializable
PyValues == {PyInt, PyTuple, PyList, PySet}
InputValues == {PyInt, PyTuple, PySet}

EmptyDict == [k \in {} |-> PyInt]
Mappings == UNION {[D -> PyValues] : D \in SUBSET Keys}
UpdateArgs == {EmptyDict, [k \in Keys |-> IF k = "a" THEN PyInt ELSE PyTuple]}

\* A mapping whose values are the Python images of JSON values.
JSONRepresentable(m) == \A k \in DOMAIN m : m[k].type \in {"int", "list"}

\* ------------------------------------------------------------- JSON codec
NoBlob == [kind |-> "none"]
BadBlob == [kind |-> "malformed"]             \* bytes that are not JSON
PluginKey == "polars_plugin_meta"

\* json.JSONEncoder: int -> number, list and tuple -> array; a set raises.
Serializable(m) == \A k \in DOMAIN m : m[k].type # "set"

JsonToken(v) ==
    CASE v.type = "int" -> [tok |-> "number", text |-> v.val]
      [] v.type \in {"list", "tuple"} -> [tok |-> "array", text |-> v.val]

json_dumps(m) == [kind |-> "json", obj |-> [k \in DOMAIN m |-> JsonToken(m[k])]]

\* json.JSONDecoder: number -> int, array -> list.
PyValueOf(t) ==
    CASE t.tok = "number" -> [type |-> "int", val |-> t.text]
      [] t.tok = "array" -> [type |-> "list", val |-> t.text]

Decodable(blob) == blob.kind = "json"
json_loads(blob) == [k \in DOMAIN blob.obj |-> PyValueOf(blob.obj[k])]

\* ------------------------------------------------------------ dict.update
\* target.update(src): every key of src is written over target's.
dict_update(target, src) == src @@ target

\* ------------------------------------------------------------------ state
VARIABLES
    live,            \* addresses holding a DataFrame that is not yet finalized
    held,            \* DataFrames the caller has a reference to
    proxy,           \* proxy[p]: the _df (= _df_id) of plugin object p, 0: none
    df_id_to_meta,   \* _df_id_to_meta: id -> dict object
    df_id_to_ref,    \* _df_id_to_ref:  id -> weakref object
    dicts,           \* dict object -> its contents
    wrefs,           \* weakref object -> its referent (0 once cleared)
    heldMap,         \* the dict a get_metadata() call returned to the caller
    heldOwner,       \* the DataFrame get_metadata() was called for (0: gone)
    files,           \* path -> schema metadata of the parquet file there
    written,         \* path -> the metadata the plugin encoded into it
    hiwater,         \* the highest address used so far
    graves,          \* addresses where a DataFrame with metadata has died
    ops,             \* how many calls the caller has made
    last             \* the call that just returned, with its result

vars == <<live, held, proxy, df_id_to_meta, df_id_to_ref, dicts, wrefs,
          heldMap, heldOwner, files, written, graves, hiwater, ops,
          last>>

\* The class-level registry together with the objects it refers to.
Registry == [meta |-> df_id_to_meta, ref |-> df_id_to_ref,
             dicts |-> dicts, wrefs |-> wrefs]

\* A fresh object identity: hint if it is not in use, else the lowest free.
NewObj(used, hint) ==
    IF hint \notin used
    THEN hint
    ELSE CHOOSE n \in 1..(Cardinality(used) + 1) : n \notin used

DropKey(f, k) == [x \in DOMAIN f \ {k} |-> f[x]]

\* Dict objects stay alive while the registry or the caller refers to them.
Sweep(R, keep) ==
    LET used == {R.meta[i] : i \in DOMAIN R.meta} \cup (keep \ {0})
    IN  [R EXCEPT !.dicts = [d \in DOMAIN R.dicts \cap used |-> R.dicts[d]],
                  !.wrefs = [h \in {R.ref[i] : i \in DOMAIN R.ref} \cap
                                   DOMAIN R.wrefs |-> R.wrefs[h]]]

\* ----------------------------------------------------- ConfigMetaPlugin
\* __init__ that registers the dict and no weakref.
ConfigMetaPlugin_no_ref(R, df) ==
    IF df \in DOMAIN R.meta
    THEN R
    ELSE LET d == NewObj(DOMAIN R.dicts, df)
         IN  [R EXCEPT !.meta = (df :> d) @@ @,
                       !.dicts = (d :> EmptyDict) @@ @]

\* __init__ without the membership test: every construction starts over.
ConfigMetaPlugin_reset(R, df) ==
    LET d == NewObj(DOMAIN R.dicts, df)
        h == NewObj(DOMAIN R.wrefs, df)
    IN  [meta |-> (df :> d) @@ R.meta,
         ref |-> (df :> h) @@ R.ref,
         dicts |-> (d :> EmptyDict) @@ R.dicts,
         wrefs |-> (h :> df) @@ R.wrefs]

\* __init__(df): register df if its id is not a key of _df_id_to_meta.
ConfigMetaPlugin(R, df) ==
    IF df \in DOMAIN R.meta
    THEN R
    ELSE LET d == NewObj(DOMAIN R.dicts, df)
             h == NewObj(DOMAIN R.wrefs, df)
         IN  [meta |-> (df :> d) @@ R.meta,
              ref |-> (df :> h) @@ R.ref,
              dicts |-> (d :> EmptyDict) @@ R.dicts,
              wrefs |-> (h :> df) @@ R.wrefs]

\* _cleanup that drops the first entry of _df_id_to_ref, whichever it is.
cleanup_lowest(R, df_weakref) ==
    IF DOMAIN R.ref = {}
    THEN R
    ELSE LET to_remove ==
                 CHOOSE i \in DOMAIN R.ref : \A j \in DOMAIN R.ref : i <= j
         IN  [R EXCEPT !.ref = DropKey(R.ref, to_remove),
                       !.meta = DropKey(R.meta, to_remove)]

\* _cleanup that forgets the metadata entry.
cleanup_keep_meta(R, df_weakref) ==
    LET found == {df_id \in DOMAIN R.ref : R.ref[df_id] = df_weakref}
    IN  IF found = {}
        THEN R
        ELSE [R EXCEPT !.ref = DropKey(R.ref, CHOOSE df_id \in found : TRUE)]

\* _cleanup whose search never matches.
cleanup_never(R, df_weakref) == R

\* _cleanup(df_weakref): drop the entries of the id whose weakref this is.
cleanup(R, df_weakref) ==
    LET found == {df_id \in DOMAIN R.ref : R.ref[df_id] = df_weakref}
    IN  IF found = {}
        THEN R
        ELSE LET to_remove == CHOOSE df_id \in found : TRUE
             IN  [R EXCEPT !.ref = DropKey(R.ref, to_remove),
                           !.meta = DropKey(R.meta, to_remove)]

\* update that validates: a mapping json.dumps would refuse is not stored.
update_validating(R, df_id, mapping) ==
    IF Serializable(mapping)
    THEN [R EXCEPT !.dicts[R.meta[df_id]] = dict_update(@, mapping)]
    ELSE R

\* set(**kwargs) and update(mapping) are the same dict.update.
update(R, df_id, mapping) ==
    [R EXCEPT !.dicts[R.meta[df_id]] = dict_update(@, mapping)]

\* merge that only fills in the keys the bound instance lacks.
RECURSIVE merge_bound_wins(_, _, _)
merge_bound_wins(R, df_id, dfs) ==
    IF dfs = <<>>
    THEN R
    ELSE LET R1 == ConfigMetaPlugin(R, Head(dfs))
             src == R1.dicts[R1.meta[Head(dfs)]]
         IN  merge_bound_wins(
                 [R1 EXCEPT !.dicts[R1.meta[df_id]] = @ @@ src],
                 df_id, Tail(dfs))

\* merge that also writes the bound instance's metadata into each argument.
RECURSIVE merge_both_ways(_, _, _)
merge_both_ways(R, df_id, dfs) ==
    IF dfs = <<>>
    THEN R
    ELSE LET other_id == Head(dfs)
             R1 == ConfigMetaPlugin(R, other_id)
             R2 == update(R1, df_id, R1.dicts[R1.meta[other_id]])
         IN  merge_both_ways(update(R2, other_id, R2.dicts[R2.meta[df_id]]),
                             df_id, Tail(dfs))

\* merge that takes its arguments last to first.
RECURSIVE merge_reversed(_, _, _)
merge_reversed(R, df_id, dfs) ==
    IF dfs = <<>>
    THEN R
    ELSE LET other_id == dfs[Len(dfs)]
             R1 == ConfigMetaPlugin(R, other_id)
         IN  merge_reversed(update(R1, df_id, R1.dicts[R1.meta[other_id]]),
                            df_id, SubSeq(dfs, 1, Len(dfs) - 1))

\* merge(*dfs)
RECURSIVE merge(_, _, _)
merge(R, df_id, dfs) ==
    IF dfs = <<>>
    THEN R
    ELSE LET other_id == Head(dfs)
             R1 == ConfigMetaPlugin(R, other_id)
             src == IF other_id \in DOMAIN R1.meta
                    THEN R1.dicts[R1.meta[other_id]]
                    ELSE EmptyDict
         IN  merge(update(R1, df_id, src), df_id, Tail(dfs))

\* get_metadata that hands out a copy of the dict.
get_metadata_copy(R, df_id) ==
    LET d == NewObj(DOMAIN R.dicts, R.meta[df_id])
    IN  [reg |-> [R EXCEPT !.dicts = (d :> R.dicts[R.meta[df_id]]) @@ @],
         ret |-> d]

\* get_metadata(): the registry's dict object itself (ret), the registry
\* being left as it is (reg).
get_metadata(R, df_id) == [reg |-> R, ret |-> R.meta[df_id]]

\* The attributes of the underlying DataFrame, by kind: a method, a plain
\* attribute, an attribute whose value is None, or no such attribute.
DfAttr ==
    [select |-> "callable", shape |-> "value", flag |-> "None",
     nope |-> "absent", write_parquet |-> "callable"]
AttrNames == DOMAIN DfAttr

\* __getattr__(name): what the request gives back.
getattr(name) ==
    IF name = "write_parquet"
    THEN "_write_parquet_plugin"
    ELSE LET df_attr == IF DfAttr[name] = "absent" THEN "None" ELSE DfAttr[name]
         IN  CASE df_attr = "None" -> "AttributeError"
               [] df_attr = "value" -> "df_attr"
               [] df_attr = "callable" -> "wrapper"

\* wrapper that registers the result and copies nothing.
wrapper_no_copy(R, df_id, result) ==
    IF result # 0 THEN ConfigMetaPlugin(R, result) ELSE R

\* wrapper without the isinstance test.
wrapper_no_isinstance(R, df_id, result) ==
    LET R1 == ConfigMetaPlugin(R, result)
    IN  [R1 EXCEPT !.dicts[R1.meta[result]] =
                       dict_update(@, R1.dicts[R1.meta[df_id]])]

\* wrapper that gives the result the bound instance's dict itself.
wrapper_share(R, df_id, result) ==
    IF result # 0
    THEN LET R1 == ConfigMetaPlugin(R, result)
         IN  [R1 EXCEPT !.meta[result] = R1.meta[df_id]]
    ELSE R

\* wrapper that keeps the result's own value where the keys collide.
wrapper_result_wins(R, df_id, result) ==
    IF result # 0
    THEN LET R1 == ConfigMetaPlugin(R, result)
         IN  [R1 EXCEPT !.dicts[R1.meta[result]] =
                            @ @@ R1.dicts[R1.meta[df_id]]]
    ELSE R

\* wrapper(*args, **kwargs), after df_attr returned result (0: no DataFrame).
wrapper(R, df_id, result) ==
    IF result # 0
    THEN LET R1 == ConfigMetaPlugin(R, result)
         IN  update(R1, result, R1.dicts[R1.meta[df_id]])
    ELSE R

\* _write_parquet_plugin: the schema metadata handed to pq.write_table.
write_parquet_plugin(R, df_id, existing_meta) ==
    (PluginKey :> json_dumps(R.dicts[R.meta[df_id]])) @@ existing_meta

\* write_parquet that empties the metadata it has written.
write_parquet_consume(R, df_id, existing_meta) ==
    LET metadata_dict == R.dicts[R.meta[df_id]]
    IN  IF Serializable(metadata_dict)
        THEN [reg |-> [R EXCEPT !.dicts[R.meta[df_id]] = EmptyDict],
              error |-> "none", wrote |-> TRUE,
              new_meta |-> write_parquet_plugin(R, df_id, existing_meta)]
        ELSE [reg |-> R, error |-> "TypeError", wrote |-> FALSE,
              new_meta |-> existing_meta]

\* df.config_meta.write_parquet(path), the whole call: json.dumps raises
\* before anything is converted or written; otherwise pq.write_table gets
\* new_meta. The registry is only read.
write_parquet(R, df_id, existing_meta) ==
    LET metadata_dict == R.dicts[R.meta[df_id]]
    IN  IF Serializable(metadata_dict)
        THEN [reg |-> R, error |-> "none", wrote |-> TRUE,
              new_meta |-> write_parquet_plugin(R, df_id, existing_meta)]
        ELSE [reg |-> R, error |-> "TypeError", wrote |-> FALSE,
              new_meta |-> existing_meta]

\* read_parquet_with_meta that swallows the decoding error.
read_parquet_swallow(R, meta, df) ==
    LET custom_json ==
            IF PluginKey \in DOMAIN meta THEN meta[PluginKey] ELSE NoBlob
    IN  IF custom_json # NoBlob /\ Decodable(custom_json)
        THEN [reg |-> update(ConfigMetaPlugin(R, df), df,
                             json_loads(custom_json)),
              error |-> "none"]
        ELSE [reg |-> ConfigMetaPlugin(R, df), error |-> "none"]

\* read_parquet_with_meta that registers the df and drops what it decoded.
read_parquet_drop(R, meta, df) ==
    [reg |-> ConfigMetaPlugin(R, df), error |-> "none"]

\* read_parquet_with_meta with meta[key] in place of meta.get(key, None).
read_parquet_strict(R, meta, df) ==
    IF PluginKey \notin DOMAIN meta
    THEN [reg |-> R, error |-> "KeyError"]
    ELSE IF Decodable(meta[PluginKey])
    THEN [reg |-> [ConfigMetaPlugin(R, df) EXCEPT
                     !.dicts[ConfigMetaPlugin(R, df).meta[df]] =
                         dict_update(@, json_loads(meta[PluginKey]))],
          error |-> "none"]
    ELSE [reg |-> R, error |-> "JSONDecodeError"]

\* read_parquet_with_meta, from the schema metadata read and the new df:
\* the registry it leaves and the exception it ends with, if any.
read_parquet_with_meta(R, meta, df) ==
    LET custom_json ==
            IF PluginKey \in DOMAIN meta THEN meta[PluginKey] ELSE NoBlob
    IN  IF custom_json # NoBlob
        THEN IF Decodable(custom_json)
             THEN LET data_dict == json_loads(custom_json)
                      R1 == ConfigMetaPlugin(R, df)      \* ConfigMetaPlugin(df)
                      R2 == ConfigMetaPlugin(R1, df)     \* df.config_meta
                  IN  [reg |-> update(R2, df, data_dict), error |-> "none"]
             ELSE [reg |-> R, error |-> "JSONDecodeError"]
        ELSE [reg |-> R, error |-> "none"]

\* ---------------------------------------------------------------- actions
\* A plugin object that kept the id alone and no reference to the DataFrame.
Reachable_id_only(a) == a \in held

\* A DataFrame is referred to by the caller or by a plugin object (_df).
Reachable(a) == a \in held \/ \E p \in Proxies : proxy[p] = a
Registered(a) == a \in DOMAIN df_id_to_meta
MetaOf(a) == dicts[df_id_to_meta[a]]

\* How the caller gets at a plugin object: one it kept (cm = df.config_meta,
\* then cm.f(...)), or the one df.config_meta constructs for this call.
Accessors ==
    [kind : {"kept"}, of : Proxies] \cup [kind : {"new"}, of : Ids]
CanUse(x) == IF x.kind = "kept" THEN proxy[x.of] # 0 ELSE x.of \in held
DfOf(x) == IF x.kind = "kept" THEN proxy[x.of] ELSE x.of
\* The registry once the plugin object is there.
Via(x) ==
    IF x.kind = "kept" THEN Registry ELSE ConfigMetaPlugin(Registry, DfOf(x))

\* The registry after a call, with unreferenced dicts and weakrefs freed.
Store(R, keep) ==
    LET S == Sweep(R, {keep})
    IN  /\ df_id_to_meta' = S.meta
        /\ df_id_to_ref' = S.ref
        /\ dicts' = S.dicts
        /\ wrefs' = S.wrefs

\* Where the allocator may put a new DataFrame: at an address that was in
\* use before and is free again, or at the next address never used so far
\* (the addresses never used are all alike).
Free(a) == a \notin live /\ a <= hiwater + 1
Alloc(a) == hiwater' = IF a > hiwater THEN a ELSE hiwater

\* One more call by the caller.
Step == ops < MaxOps /\ ops' = ops + 1

NoFile == [exists |-> FALSE, meta |-> EmptyDict]
NotWritten == [by |-> "nobody", m |-> EmptyDict]

Init ==
    /\ live = {}
    /\ held = {}
    /\ proxy = [p \in Proxies |-> 0]
    /\ df_id_to_meta = EmptyDict
    /\ df_id_to_ref = EmptyDict
    /\ dicts = EmptyDict
    /\ wrefs = EmptyDict
    /\ heldMap = 0
    /\ heldOwner = 0
    /\ files = [f \in Files |-> NoFile]
    /\ written = [f \in Files |-> NotWritten]
    /\ graves = {}
    /\ hiwater = 0
    /\ ops = 0
    /\ last = [op |-> "init"]

\* pl.DataFrame(...): a new DataFrame at an address that is free.
Create(a) ==
    /\ Step
    /\ Free(a)
    /\ Alloc(a)
    /\ live' = live \cup {a}
    /\ held' = held \cup {a}
    /\ last' = [op |-> "create", id |-> a]
    /\ UNCHANGED <<proxy, df_id_to_meta, df_id_to_ref, dicts, wrefs, heldMap,
                   heldOwner, files, written, graves>>

\* cm = df.config_meta: the namespace constructs ConfigMetaPlugin(df).
Wrap(p, a) ==
    /\ Step
    /\ proxy[p] = 0
    /\ \A q \in Proxies : q < p => proxy[q] # 0
    /\ a \in held
    /\ proxy' = [proxy EXCEPT ![p] = a]
    /\ Store(ConfigMetaPlugin(Registry, a), heldMap)
    /\ last' = [op |-> "wrap", id |-> a, known |-> Registered(a)]
    /\ UNCHANGED <<live, held, heldMap, heldOwner, files, written, graves,
                   hiwater>>

\* The caller lets go of a plugin object.
DropProxy(p) ==
    /\ Step
    /\ proxy[p] # 0
    /\ proxy' = [proxy EXCEPT ![p] = 0]
    /\ last' = [op |-> "del_proxy", id |-> proxy[p]]
    /\ UNCHANGED <<live, held, df_id_to_meta, df_id_to_ref, dicts, wrefs,
                   heldMap, heldOwner, files, written, graves, hiwater>>

\* The caller lets go of a DataFrame.
Discard(a) ==
    /\ Step
    /\ a \in held
    /\ held' = held \ {a}
    /\ last' = [op |-> "del_df", id |-> a]
    /\ UNCHANGED <<live, proxy, df_id_to_meta, df_id_to_ref, dicts, wrefs,
                   heldMap, heldOwner, files, written, graves, hiwater>>

\* The weakref callbacks of a DataFrame that is being finalized.
RECURSIVE Callbacks(_, _)
Callbacks(R, hs) ==
    IF hs = {}
    THEN R
    ELSE LET h == CHOOSE x \in hs : TRUE
         IN  Callbacks(cleanup(R, h), hs \ {h})

\* An unreachable DataFrame is finalized: its weakrefs are cleared, their
\* callbacks run, and only then is its address free again.
Collect(a) ==
    /\ a \in live
    /\ ~Reachable(a)
    /\ LET hs == {h \in DOMAIN wrefs : wrefs[h] = a}
           R0 == [Registry EXCEPT
                    !.wrefs = [h \in DOMAIN wrefs |->
                                 IF h \in hs THEN 0 ELSE wrefs[h]]]
       IN  Store(Callbacks(R0, hs), heldMap)
    /\ live' = live \ {a}
    /\ heldOwner' = IF heldOwner = a THEN 0 ELSE heldOwner
    /\ graves' = IF Registered(a) /\ MetaOf(a) # EmptyDict
                 THEN graves \cup {a} ELSE graves
    /\ last' = [op |-> "gc", id |-> a, known |-> Registered(a)]
    /\ UNCHANGED <<held, proxy, heldMap, files, written, hiwater, ops>>

\* self._df_id_to_meta[self._df_id] when the id has no entry.
KeyError(x, name) ==
    /\ last' = [op |-> name, id |-> DfOf(x), error |-> "KeyError"]
    /\ UNCHANGED <<live, held, proxy, df_id_to_meta, df_id_to_ref, dicts, wrefs,
                   heldMap, heldOwner, files, written, graves, hiwater>>

\* df.config_meta.set(k=v)
Set(x, k, v) ==
    /\ Step
    /\ CanUse(x)
    /\ IF DfOf(x) \in DOMAIN Via(x).meta
       THEN /\ Store(update(Via(x), DfOf(x), k :> v), heldMap)
            /\ last' = [op |-> "set", id |-> DfOf(x), arg |-> k :> v,
                        error |-> "none"]
            /\ UNCHANGED <<live, held, proxy, heldMap, heldOwner, files,
                           written, graves, hiwater>>
       ELSE KeyError(x, "set")

\* df.config_meta.update(mapping)
Update(x, mapping) ==
    /\ Step
    /\ CanUse(x)
    /\ IF DfOf(x) \in DOMAIN Via(x).meta
       THEN /\ Store(update(Via(x), DfOf(x), mapping), heldMap)
            /\ last' = [op |-> "update", id |-> DfOf(x), arg |-> mapping,
                        error |-> "none"]
            /\ UNCHANGED <<live, held, proxy, heldMap, heldOwner, files,
                           written, graves, hiwater>>
       ELSE KeyError(x, "update")

\* df.config_meta.merge(*dfs), the arguments being DataFrames the caller has.
Merge(x, dfs) ==
    /\ Step
    /\ CanUse(x)
    /\ \A i \in DOMAIN dfs : dfs[i] \in held
    /\ IF DfOf(x) \in DOMAIN Via(x).meta
       THEN /\ Store(merge(Via(x), DfOf(x), dfs), heldMap)
            /\ last' = [op |-> "merge", id |-> DfOf(x), dfs |-> dfs,
                        before |-> Via(x).dicts[Via(x).meta[DfOf(x)]],
                        error |-> "none"]
            /\ UNCHANGED <<live, held, proxy, heldMap, heldOwner, files,
                           written, graves, hiwater>>
       ELSE KeyError(x, "merge")

\* d = df.config_meta.get_metadata()
GetMetadata(x) ==
    /\ Step
    /\ CanUse(x)
    /\ IF DfOf(x) \in DOMAIN Via(x).meta
       THEN /\ heldMap' = get_metadata(Via(x), DfOf(x)).ret
            /\ heldOwner' = DfOf(x)
            /\ Store(get_metadata(Via(x), DfOf(x)).reg, heldMap')
            /\ last' = [op |-> "get_metadata", id |-> DfOf(x), error |-> "none"]
            /\ UNCHANGED <<live, held, proxy, files, written, graves, hiwater>>
       ELSE KeyError(x, "get_metadata")

\* d[k] = v on the dict get_metadata() returned.
MutateReturned(k, v) ==
    /\ Step
    /\ heldMap # 0
    /\ dicts' = [dicts EXCEPT ![heldMap] = (k :> v) @@ @]
    /\ last' = [op |-> "setitem", id |-> heldOwner, arg |-> k :> v,
                error |-> "none"]
    /\ UNCHANGED <<live, held, proxy, df_id_to_meta, df_id_to_ref, wrefs,
                   heldMap, heldOwner, files, written, graves, hiwater>>

\* The caller lets go of the dict get_metadata() returned.
DropReturned ==
    /\ Step
    /\ heldMap # 0
    /\ heldMap' = 0
    /\ heldOwner' = 0
    /\ Store(Registry, 0)
    /\ last' = [op |-> "del_dict"]
    /\ UNCHANGED <<live, held, proxy, files, written, graves, hiwater>>

\* df.config_meta.<name>
GetAttr(x, name) ==
    /\ Step
    /\ CanUse(x)
    /\ Store(Via(x), heldMap)
    /\ last' = [op |-> "getattr", name |-> name, attr |-> DfAttr[name],
                outcome |-> getattr(name)]
    /\ UNCHANGED <<live, held, proxy, heldMap, heldOwner, files, written,
                   graves, hiwater>>

\* df.config_meta.<method>(...): the wrapper runs the method, which returns
\* a DataFrame at a free address, a DataFrame that exists already (the
\* method's own or one it was given), or something that is no DataFrame (0).
Call(x, result) ==
    /\ Step
    /\ CanUse(x)
    /\ result # 0 => (Free(result) \/ Reachable(result))
    /\ hiwater' = IF result > hiwater THEN result ELSE hiwater
    /\ IF result = 0 \/ DfOf(x) \in DOMAIN Via(x).meta
       THEN /\ Store(wrapper(Via(x), DfOf(x), result), heldMap)
            /\ live' = IF result = 0 THEN live ELSE live \cup {result}
            /\ held' = IF result = 0 THEN held ELSE held \cup {result}
            /\ last' = [op |-> "call", id |-> DfOf(x), result |-> result,
                        via |-> x.kind, new |-> result \notin live,
                        before |-> IF DfOf(x) \in DOMAIN Via(x).meta
                                   THEN Via(x).dicts[Via(x).meta[DfOf(x)]]
                                   ELSE EmptyDict,
                        error |-> "none"]
            /\ UNCHANGED <<proxy, heldMap, heldOwner, files, written, graves>>
       ELSE /\ live' = live \cup {result}
            /\ Store(ConfigMetaPlugin(Via(x), result), heldMap)
            /\ last' = [op |-> "call", id |-> DfOf(x), error |-> "KeyError"]
            /\ UNCHANGED <<held, proxy, heldMap, heldOwner, files, written,
                           graves>>

\* df.config_meta.write_parquet(path)
Persist(x, f) ==
    /\ Step
    /\ CanUse(x)
    /\ IF DfOf(x) \notin DOMAIN Via(x).meta
       THEN KeyError(x, "write_parquet")
       ELSE LET R == Via(x)
                w == write_parquet(R, DfOf(x), EmptyDict)
            IN  /\ Store(w.reg, heldMap)
                /\ files' = IF w.wrote
                            THEN [files EXCEPT ![f] =
                                    [exists |-> TRUE, meta |-> w.new_meta]]
                            ELSE files
                /\ written' = IF w.wrote
                              THEN [written EXCEPT ![f] =
                                      [by |-> "plugin",
                                       m |-> R.dicts[R.meta[DfOf(x)]]]]
                              ELSE written
                /\ last' = [op |-> "write_parquet", id |-> DfOf(x),
                            error |-> w.error]
                /\ UNCHANGED <<live, held, proxy, heldMap, heldOwner, graves,
                               hiwater>>

\* A parquet file some other writer made: df.write_parquet(path), with no
\* plugin key in the schema, or a file whose plugin key holds no JSON.
ForeignMetas == {EmptyDict, PluginKey :> BadBlob}

ExternalWrite(f, meta) ==
    /\ Step
    /\ files' = [files EXCEPT ![f] = [exists |-> TRUE, meta |-> meta]]
    /\ written' = [written EXCEPT ![f] = [by |-> "codec", m |-> EmptyDict]]
    /\ last' = [op |-> "foreign_write", file |-> f]
    /\ UNCHANGED <<live, held, proxy, df_id_to_meta, df_id_to_ref, dicts, wrefs,
                   heldMap, heldOwner, graves, hiwater>>

\* read_parquet_with_meta(path): pl.from_arrow makes the DataFrame at a; the
\* caller gets it unless the call raises.
Load(f, a) ==
    /\ Step
    /\ files[f].exists
    /\ Free(a)
    /\ Alloc(a)
    /\ LET r == read_parquet_with_meta(Registry, files[f].meta, a)
       IN  /\ Store(r.reg, heldMap)
           /\ held' = IF r.error = "none" THEN held \cup {a} ELSE held
           /\ last' = [op |-> "read_parquet_with_meta", id |-> a, file |-> f,
                       error |-> r.error]
    /\ live' = live \cup {a}
    /\ UNCHANGED <<proxy, heldMap, heldOwner, files, written, graves>>

MergeArgs == UNION {[1..n -> Ids] : n \in 0..MaxMergeArgs}

Next ==
    \/ \E a \in Ids : Create(a)
    \/ \E p \in Proxies, a \in Ids : Wrap(p, a)
    \/ \E p \in Proxies : DropProxy(p)
    \/ \E a \in Ids : Discard(a)
    \/ \E a \in Ids : Collect(a)
    \/ \E x \in Accessors, k \in Keys, v \in InputValues : Set(x, k, v)
    \/ \E x \in Accessors, m \in UpdateArgs : Update(x, m)
    \/ \E x \in Accessors, dfs \in MergeArgs : Merge(x, dfs)
    \/ \E x \in Accessors : GetMetadata(x)
    \/ \E k \in Keys, v \in InputValues : MutateReturned(k, v)
    \/ DropReturned
    \/ \E x \in Accessors, name \in AttrNames : GetAttr(x, name)
    \/ \E x \in Accessors, r \in Ids \cup {0} : Call(x, r)
    \/ \E x \in Accessors, f \in Files : Persist(x, f)
    \/ \E f \in Files, meta \in ForeignMetas : ExternalWrite(f, meta)
    \/ \E f \in Files, a \in Ids : Load(f, a)

Spec == Init /\ [][Next]_vars

\* The unreachable DataFrames are finalized sooner or later: reference
\* counting at once, the cycle collector at its next run.
FairSpec == Spec /\ \A a \in Ids : WF_vars(Collect(a))

\* One merge on a registry that earlier calls have built: DataFrames the
\* caller holds, each unregistered or registered with some metadata.
MergeIds == 1..NumMergeIds
MergeMetas ==
    {EmptyDict} \cup [{"a"} -> InputValues] \cup (UpdateArgs \ {EmptyDict})
MergeSeqs == UNION {[1..n -> MergeIds] : n \in 0..MaxMergeArgs}

MergeInit ==
    \E reg \in SUBSET MergeIds :
        \E m \in [reg -> MergeMetas] :
            /\ live = MergeIds
            /\ held = MergeIds
            /\ proxy = [p \in Proxies |-> 0]
            /\ df_id_to_meta = [a \in reg |-> a]
            /\ df_id_to_ref = [a \in reg |-> a]
            /\ dicts = m
            /\ wrefs = [a \in reg |-> a]
            /\ heldMap = 0
            /\ heldOwner = 0
            /\ files = [f \in Files |-> NoFile]
            /\ written = [f \in Files |-> NotWritten]
            /\ graves = {}
            /\ hiwater = NumMergeIds
            /\ ops = MaxOps - 1
            /\ last = [op |-> "init"]

MergeNext ==
    \E a \in MergeIds, dfs \in MergeSeqs :
        Merge([kind |-> "new", of |-> a], dfs)

MergeSpec == MergeInit /\ [][MergeNext]_vars

\* ------------------------------------------------------------------ claims

\* C1: a call through A's plugin object that returns a new DataFrame leaves
\* the result registered with exactly the metadata A had, as the call returns.
C1_Propagation ==
    (last.op = "call" /\ last.error = "none" /\ last.result # 0 /\ last.new)
        => /\ Registered(last.result)
           /\ MetaOf(last.result) = last.before

C1_Witness ==
    /\ last.op = "call" /\ last.error = "none" /\ last.result # 0 /\ last.new
    /\ last.before # EmptyDict
    /\ last.result \in graves

\* C2 as stated: after A.merge(B), a key both hold keeps the value A had.
C2_BoundWins ==
    (last.op = "merge" /\ last.error = "none" /\ Len(last.dfs) = 1
       /\ last.dfs[1] # last.id)
        => \A k \in DOMAIN last.before \cap DOMAIN MetaOf(last.dfs[1]) :
               MetaOf(last.id)[k] = last.before[k]

\* C2 as amended: after A.merge(B), every key of B's metadata has B's value
\* in A's metadata, and the keys only A had keep A's value.
C2_MergedWins ==
    (last.op = "merge" /\ last.error = "none" /\ Len(last.dfs) = 1
       /\ last.dfs[1] # last.id)
        => /\ \A k \in DOMAIN MetaOf(last.dfs[1]) :
                  MetaOf(last.id)[k] = MetaOf(last.dfs[1])[k]
           /\ \A k \in DOMAIN last.before \ DOMAIN MetaOf(last.dfs[1]) :
                  MetaOf(last.id)[k] = last.before[k]
           /\ DOMAIN MetaOf(last.id) =
                  DOMAIN last.before \cup DOMAIN MetaOf(last.dfs[1])

C2_Witness ==
    /\ last.op = "merge" /\ last.error = "none" /\ Len(last.dfs) = 1
    /\ last.dfs[1] # last.id
    /\ \E k \in DOMAIN last.before \cap DOMAIN MetaOf(last.dfs[1]) :
           last.before[k] # MetaOf(last.dfs[1])[k]

\* C3: loading a file the plugin wrote for metadata M (str keys, JSON values)
\* gives a DataFrame whose metadata is M.
C3_RoundTrip ==
    (last.op = "read_parquet_with_meta"
       /\ written[last.file].by = "plugin"
       /\ JSONRepresentable(written[last.file].m))
        => /\ last.error = "none"
           /\ Registered(last.id)
           /\ MetaOf(last.id) = written[last.file].m

C3_Witness ==
    /\ last.op = "read_parquet_with_meta"
    /\ written[last.file].by = "plugin"
    /\ JSONRepresentable(written[last.file].m)
    /\ written[last.file].m # EmptyDict
    /\ last.id \in graves

\* C4: every id in the registry is the id of a DataFrame that is not yet
\* finalized, so a DataFrame made at an address used before starts with no
\* entry and with empty metadata when it is first wrapped.
C4_NoEntryOutlivesInstance ==
    /\ DOMAIN df_id_to_meta \subseteq live
    /\ DOMAIN df_id_to_ref \subseteq live
    /\ (last.op = "create" => ~Registered(last.id))
    /\ (last.op = "wrap" /\ ~last.known => MetaOf(last.id) = EmptyDict)

C4_Witness ==
    /\ last.op = "wrap" /\ ~last.known
    /\ last.id \in graves

\* C5: an unreachable DataFrame's metadata entry and weakref entry are
\* removed in the end, and the registry never holds more entries than there
\* are DataFrames not yet finalized.
C5_CleanupLiveness ==
    /\ \A a \in Ids :
           (a \in live /\ ~Reachable(a))
               ~> (/\ a \notin DOMAIN df_id_to_meta
                   /\ a \notin DOMAIN df_id_to_ref)
    /\ [](Cardinality(DOMAIN df_id_to_meta) <= Cardinality(live))

C5_Witness ==
    /\ last.op = "gc" /\ last.known
    /\ last.id \notin DOMAIN df_id_to_meta
    /\ last.id \notin DOMAIN df_id_to_ref

\* C6 as stated: for a name other than the metadata operations and
\* write_parquet, the request raises AttributeError exactly when the
\* DataFrame has no such attribute, and an attribute that is there and not
\* callable is returned as it is, whatever its value.
C6_AttributeResolution ==
    (last.op = "getattr" /\ last.name # "write_parquet")
        => /\ (last.outcome = "AttributeError") <=> (last.attr = "absent")
           /\ last.attr \in {"value", "None"} => last.outcome = "df_attr"

\* C7: a call through a plugin object that returns no DataFrame leaves the
\* registry as the plugin object's construction left it: unchanged when the
\* plugin object was there before the call.
C7_NonContainerPassthrough ==
    [][(last'.op = "call" /\ last'.error = "none" /\ last'.result = 0)
         => /\ Registry' =
                   Sweep(ConfigMetaPlugin(Registry, last'.id), {heldMap})
            /\ last'.via = "kept" =>
                   UNCHANGED <<df_id_to_meta, df_id_to_ref, dicts, wrefs>>]_vars

C7_Witness ==
    /\ last.op = "call" /\ last.error = "none" /\ last.result = 0
    /\ last.via = "kept"
    /\ MetaOf(last.id) # EmptyDict

\* C8: the dict get_metadata returned is the registry's own dict of that
\* DataFrame, the same through every plugin object of it, so what is written
\* through it, or by set/update through one plugin object, is what
\* get_metadata gives through every other.
C8_SharedLiveMapping ==
    /\ heldOwner # 0 =>
           /\ Registered(heldOwner)
           /\ \A x \in Accessors :
                  (CanUse(x) /\ DfOf(x) = heldOwner)
                      => get_metadata(Via(x), DfOf(x)).ret = heldMap
    /\ (last.op \in {"set", "update", "setitem"} /\ last.error = "none"
          /\ last.id # 0)
           => \A x \in Accessors :
                  (CanUse(x) /\ DfOf(x) = last.id)
                      => LET g == get_metadata(Via(x), DfOf(x))
                         IN  \A k \in DOMAIN last.arg :
                                 /\ k \in DOMAIN g.reg.dicts[g.ret]
                                 /\ g.reg.dicts[g.ret][k] = last.arg[k]

C8_Witness ==
    /\ last.op = "setitem" /\ heldOwner # 0
    /\ \E p \in Proxies : proxy[p] = heldOwner
    /\ heldOwner \in held

\* C9: wrapping a DataFrame whose id is not in the registry adds an empty
\* dict and a weakref for it and changes no other entry; wrapping one that
\* is registered changes nothing.
C9_RegistrationIdempotent ==
    [][last'.op = "wrap"
         => IF last'.known
            THEN UNCHANGED <<df_id_to_meta, df_id_to_ref, dicts, wrefs>>
            ELSE /\ last'.id \notin DOMAIN df_id_to_meta
                 /\ DOMAIN df_id_to_meta' = DOMAIN df_id_to_meta \cup {last'.id}
                 /\ DOMAIN df_id_to_ref' = DOMAIN df_id_to_ref \cup {last'.id}
                 /\ dicts'[df_id_to_meta'[last'.id]] = EmptyDict
                 /\ wrefs'[df_id_to_ref'[last'.id]] = last'.id
                 /\ \A a \in DOMAIN df_id_to_meta :
                        /\ dicts'[df_id_to_meta'[a]] = MetaOf(a)
                        /\ df_id_to_ref'[a] = df_id_to_ref[a]]_vars

C9_Witness ==
    /\ last.op = "wrap" /\ last.known
    /\ MetaOf(last.id) # EmptyDict
    /\ Cardinality({p \in Proxies : proxy[p] = last.id}) > 1

\* C10: loading a file whose schema metadata lacks the plugin key raises
\* nothing and returns a DataFrame whose metadata, read through a new plugin
\* object, is empty.
C10_AbsentMetadataLoad ==
    (last.op = "read_parquet_with_meta"
       /\ PluginKey \notin DOMAIN files[last.file].meta)
        => /\ last.error = "none"
           /\ last.id \in held
           /\ LET R == ConfigMetaPlugin(Registry, last.id)
                  g == get_metadata(R, last.id)
              IN  g.reg.dicts[g.ret] = EmptyDict

C10_Witness ==
    /\ last.op = "read_parquet_with_meta"
    /\ PluginKey \notin DOMAIN files[last.file].meta
    /\ last.id \in graves

\* C11: set and update store what they are given, values json.dumps refuses
\* included, and raise nothing; TypeError comes from write_parquet alone, and
\* exactly when the metadata holds such a value; a write_parquet that raises
\* it leaves the files and the registry as they were.
C11_DeferredValidation ==
    /\ [](last.op \in {"set", "update"}
            => /\ last.error = "none"
               /\ \A k \in DOMAIN last.arg :
                      /\ k \in DOMAIN MetaOf(last.id)
                      /\ MetaOf(last.id)[k] = last.arg[k])
    /\ []("error" \in DOMAIN last
            => (last.error = "TypeError"
                  <=> /\ last.op = "write_parquet"
                      /\ Registered(last.id)
                      /\ \E k \in DOMAIN MetaOf(last.id) :
                             MetaOf(last.id)[k].type = "set"))
    /\ [][(last'.op = "write_parquet" /\ last'.error = "TypeError")
            => UNCHANGED <<files, df_id_to_meta, df_id_to_ref, dicts,
                           wrefs>>]_vars

C11_Witness ==
    /\ last.op = "write_parquet" /\ last.error = "TypeError"
    /\ \E f \in Files : files[f].exists

\* C12: loading a file whose plugin key is there and holds no JSON raises
\* JSONDecodeError at the call: the caller gets no DataFrame, the DataFrame
\* that was built has no entry, and the registry is as it was.
C12_DecodeErrorSurfaced ==
    [][(last'.op = "read_parquet_with_meta"
          /\ PluginKey \in DOMAIN files[last'.file].meta
          /\ files[last'.file].meta[PluginKey] = BadBlob)
         => /\ last'.error = "JSONDecodeError"
            /\ held' = held
            /\ last'.id \notin held'
            /\ last'.id \notin DOMAIN df_id_to_meta'
            /\ UNCHANGED <<df_id_to_meta, df_id_to_ref, dicts, wrefs>>]_vars

C12_Witness ==
    /\ last.op = "read_parquet_with_meta" /\ last.error = "JSONDecodeError"
    /\ \E a \in DOMAIN df_id_to_meta : MetaOf(a) # EmptyDict

\* C13: write_parquet, whether it returns or raises, leaves the registered
\* ids and every metadata dict as they were once the plugin object was
\* there: nothing changes for a DataFrame that was registered, and for one
\* that was not, the empty entry of the plugin object's construction is all.
C13_PersistReadsOnly ==
    [][last'.op = "write_parquet"
         => IF Registered(last'.id)
            THEN UNCHANGED <<df_id_to_meta, df_id_to_ref, dicts, wrefs>>
            ELSE /\ DOMAIN df_id_to_meta' =
                        DOMAIN df_id_to_meta \cup {last'.id}
                 /\ dicts'[df_id_to_meta'[last'.id]] = EmptyDict
                 /\ \A a \in DOMAIN df_id_to_meta :
                        /\ df_id_to_meta'[a] = df_id_to_meta[a]
                        /\ dicts'[df_id_to_meta'[a]] = MetaOf(a)]_vars

C13_Witness ==
    /\ last.op = "write_parquet" /\ last.error = "none"
    /\ MetaOf(last.id) # EmptyDict
    /\ \E p \in Proxies : proxy[p] = last.id
    /\ files["f1"].exists

\* C14 as stated: in A.merge(B, C), every key A held before the call keeps
\* A's value, and a key merged in from B keeps B's value whatever C holds.
C14_BoundAlwaysWins ==
    (last.op = "merge" /\ last.error = "none" /\ Len(last.dfs) = 2)
        => /\ \A k \in DOMAIN last.before :
                  MetaOf(last.id)[k] = last.before[k]
           /\ last.dfs[1] # last.id
                  => \A k \in DOMAIN MetaOf(last.dfs[1]) \ DOMAIN last.before :
                         MetaOf(last.id)[k] = MetaOf(last.dfs[1])[k]

\* C14 as amended: after A.merge(B, C), A's metadata has the keys A held and
\* those of B and C; each key has the value of the last argument (other than
\* A itself) that holds it, and A's own value only where no argument holds it.
C14_LaterArgumentWins ==
    (last.op = "merge" /\ last.error = "none" /\ Len(last.dfs) >= 2)
        => LET others == {i \in DOMAIN last.dfs : last.dfs[i] # last.id}
               holders(k) ==
                   {i \in others : k \in DOMAIN MetaOf(last.dfs[i])}
               latest(k) ==
                   CHOOSE i \in holders(k) : \A j \in holders(k) : j <= i
           IN  /\ DOMAIN MetaOf(last.id) =
                      DOMAIN last.before \cup
                      UNION {DOMAIN MetaOf(last.dfs[i]) : i \in others}
               /\ \A k \in DOMAIN MetaOf(last.id) :
                      MetaOf(last.id)[k] =
                          IF holders(k) = {}
                          THEN last.before[k]
                          ELSE MetaOf(last.dfs[latest(k)])[k]

C14_Witness ==
    /\ last.op = "merge" /\ last.error = "none" /\ Len(last.dfs) = 2
    /\ Cardinality({last.id, last.dfs[1], last.dfs[2]}) = 3
    /\ \E k \in DOMAIN last.before :
           /\ k \in DOMAIN MetaOf(last.dfs[1])
           /\ k \in DOMAIN MetaOf(last.dfs[2])
           /\ MetaOf(last.dfs[1])[k] # last.before[k]
           /\ MetaOf(last.dfs[2])[k] # last.before[k]
           /\ MetaOf(last.dfs[2])[k] # MetaOf(last.dfs[1])[k]

\* C15: when a call through A's plugin object returns a DataFrame that has a
\* registry entry already, the result's metadata afterwards has the keys it
\* had and A's keys, with A's value for every key of A and its own value for
\* the others.
C15_PropagationOntoRegistered ==
    [][(last'.op = "call" /\ last'.error = "none" /\ last'.result # 0
          /\ Registered(last'.result))
         => LET old == MetaOf(last'.result)
                new == dicts'[df_id_to_meta'[last'.result]]
            IN  /\ DOMAIN new = DOMAIN old \cup DOMAIN last'.before
                /\ \A k \in DOMAIN last'.before : new[k] = last'.before[k]
                /\ \A k \in DOMAIN old \ DOMAIN last'.before :
                       new[k] = old[k]]_vars

C15_Witness ==
    /\ last.op = "call" /\ last.error = "none" /\ last.result # 0
    /\ ~last.new /\ last.result # last.id
    /\ last.before # EmptyDict
    /\ DOMAIN MetaOf(last.result) \ DOMAIN last.before # {}

\* C16: the finalization of a DataFrame removes the metadata entry and the
\* weakref entry of its id and no other, leaves every other entry as it was,
\* and _cleanup called once more with the same weakref changes nothing; no
\* other step removes an entry from either dict.
C16_CleanupTargeted ==
    [][IF last'.op = "gc"
       THEN /\ DOMAIN df_id_to_meta' = DOMAIN df_id_to_meta \ {last'.id}
            /\ DOMAIN df_id_to_ref' = DOMAIN df_id_to_ref \ {last'.id}
            /\ \A a \in DOMAIN df_id_to_meta' :
                   /\ df_id_to_meta'[a] = df_id_to_meta[a]
                   /\ df_id_to_ref'[a] = df_id_to_ref[a]
                   /\ dicts'[df_id_to_meta'[a]] = MetaOf(a)
            /\ last'.id \in DOMAIN df_id_to_ref
                   => cleanup(Registry', df_id_to_ref[last'.id]) = Registry'
       ELSE /\ DOMAIN df_id_to_meta \subseteq DOMAIN df_id_to_meta'
            /\ DOMAIN df_id_to_ref \subseteq DOMAIN df_id_to_ref']_vars

C16_Witness ==
    /\ last.op = "gc" /\ last.known
    /\ last.id \in graves
    /\ \E a \in DOMAIN df_id_to_meta : MetaOf(a) # EmptyDict

\* C17: between calls the ids that have a metadata entry are the ids that
\* have a weakref entry, and the weakref of an id refers to the DataFrame at
\* that id.
C17_EntriesPaired ==
    /\ DOMAIN df_id_to_meta = DOMAIN df_id_to_ref
    /\ \A a \in DOMAIN df_id_to_ref :
           /\ df_id_to_ref[a] \in DOMAIN wrefs
           /\ wrefs[df_id_to_ref[a]] = a

C17_Witness ==
    /\ last.op = "read_parquet_with_meta" /\ last.error = "none"
    /\ Registered(last.id)
    /\ Cardinality(DOMAIN df_id_to_ref) = 2

\* C18: the DataFrame of a plugin object the caller keeps is not finalized
\* and its id stays in the registry, and no call through a plugin object
\* ends with a KeyError for a missing entry, whatever was collected before.
C18_ProxyKeepsAlive ==
    /\ \A p \in Proxies :
           proxy[p] # 0 => /\ proxy[p] \in live
                           /\ Registered(proxy[p])
    /\ "error" \in DOMAIN last => last.error # "KeyError"

C18_Witness ==
    /\ last.op \in {"set", "update", "merge", "get_metadata", "call",
                     "write_parquet"}
    /\ last.error = "none"
    /\ last.id \notin held
    /\ \E p \in Proxies : proxy[p] = last.id

\* C19: A.merge(B1, ..., Bn) leaves the entry and the metadata of every
\* DataFrame other than A as they were; the entries it adds are empty ones
\* for the Bi that had none (A's own, if new, is the plugin object's); and
\* when every Bi is A itself, was unregistered or has empty metadata, A's
\* metadata is what it was.
C19_MergeFrame ==
    [][(last'.op = "merge" /\ last'.error = "none")
         => LET A == last'.id
                args == {last'.dfs[i] : i \in DOMAIN last'.dfs}
            IN  /\ \A a \in DOMAIN df_id_to_meta \ {A} :
                       /\ df_id_to_meta'[a] = df_id_to_meta[a]
                       /\ dicts'[df_id_to_meta'[a]] = MetaOf(a)
                /\ DOMAIN df_id_to_meta' =
                       DOMAIN df_id_to_meta \cup args \cup {A}
                /\ \A a \in DOMAIN df_id_to_meta' \
                             (DOMAIN df_id_to_meta \cup {A}) :
                       dicts'[df_id_to_meta'[a]] = EmptyDict
                /\ (\A b \in args : \/ b = A
                                     \/ ~Registered(b)
                                     \/ MetaOf(b) = EmptyDict)
                       => dicts'[df_id_to_meta'[A]] = last'.before]_vars

C19_Witness ==
    /\ last.op = "merge" /\ last.error = "none"
    /\ last.before # EmptyDict
    /\ MetaOf(last.id) = last.before
    /\ \E i \in DOMAIN last.dfs :
           /\ last.dfs[i] # last.id
           /\ MetaOf(last.dfs[i]) = EmptyDict

\* C20: a call through A's plugin object leaves A's metadata as it was; no
\* two ids ever share a dict object, so the result has a dict of its own;
\* and set/update for one id changes the metadata of no other id.
C20_PropagationCopies ==
    /\ [](\A a, b \in DOMAIN df_id_to_meta :
             a # b => df_id_to_meta[a] # df_id_to_meta[b])
    /\ [][(last'.op = "call" /\ last'.error = "none")
            => dicts'[df_id_to_meta'[last'.id]] = last'.before]_vars
    /\ [][(last'.op \in {"set", "update"} /\ last'.error = "none")
            => \A a \in DOMAIN df_id_to_meta \ {last'.id} :
                   dicts'[df_id_to_meta'[a]] = MetaOf(a)]_vars

C20_Witness ==
    /\ last.op = "call" /\ last.error = "none" /\ last.result # 0
    /\ last.result # last.id
    /\ last.before # EmptyDict
    /\ MetaOf(last.result) = MetaOf(last.id)
    /\ df_id_to_meta[last.result] # df_id_to_meta[last.id]
====
